---- MODULE Spec2Model ----
(***************************************************************************)
(* Model of spider-monkey-integration/example_type_embedding.cpp:          *)
(* the AdaptedMyType adapter (class registration, prototype pin, object    *)
(* factory, finalizer, constructor, raw methods toNumber and toString over *)
(* a 64-bit payload), the hand-written hardened toNumber,                  *)
(* the generated call adapters wrapFunction / wrapConstrainedMethod, and   *)
(* myFunc, which installs a WrapType<AdaptedMyTypeInfo>.                   *)
(*                                                                         *)
(* 0 is nullptr / a value that is not an object.  Object identities are    *)
(* addresses, so the model fixes them by role: the object construct makes *)
(* for payload p is p, the prototype of context c is ProtoId(c), objects   *)
(* of an unrelated class come after.  The JSClass of the AdaptedMyType     *)
(* held by context c is a member of that adapter, so its address is        *)
(* identified with c.  Contexts are created in order.                      *)
(***************************************************************************)
EXTENDS Integers, Sequences, FiniteSets, TLC

VARIABLES ctxState, adapter, wrap, obj, pay, nextPay,
          finalized, counter, passed, last, crashed

vars == <<ctxState, adapter, wrap, obj, pay, nextPay,
          finalized, counter, passed, last, crashed>>

\* ---------------------------------------------------------------- bounds
NumCtx == 2
MaxPay == 1
MaxOther == 1
MaxCount == 1

Ctx == 1..NumCtx
PayId == 1..MaxPay
ProtoId(c) == MaxPay + c
OtherId == (MaxPay + NumCtx + 1)..(MaxPay + NumCtx + MaxOther)
ObjId == 1..(MaxPay + NumCtx + MaxOther)

\* The JSClass of an unrelated type that also has a private slot: an address
\* that is no adapter's _jsclass.
OtherClass == NumCtx + 1
\* What an unrelated type keeps in its private slot: not a MyType*.
Foreign == MaxPay + 1

\* What a build can do with undefined behaviour: abort, or carry on with
\* whatever happened to be in memory.
UBOutcomes == {"crash", "garbage"}

\* ------------------------------------------------------------- int64_t
\* MyType::val is an int64_t: 64 bits, two's complement.  A value is its
\* bit pattern, as NumLimbs limbs of LimbBits bits, least significant first.
NumLimbs == 4
LimbBits == 16
LimbBase == 2 ^ LimbBits

\* A double holds MantissaBits significant bits (52 stored and the implicit
\* leading one): every integer up to 2^53 is exact, above it values round.
MantissaBits == 53

Zero64 == [i \in 1..NumLimbs |-> 0]

\* x * m + a, modulo 2^64.
RECURSIVE MulAddFrom(_, _, _, _)
MulAddFrom(x, m, carry, i) ==
    IF i > NumLimbs THEN <<>>
    ELSE LET t == x[i] * m + carry
         IN  <<t % LimbBase>> \o MulAddFrom(x, m, t \div LimbBase, i + 1)

MulAdd(x, m, a) == MulAddFrom(x, m, a, 1)

\* The remainder, divided by d, of the limbs of x from limb i up.
RECURSIVE RemFrom(_, _, _)
RemFrom(x, d, i) ==
    IF i > NumLimbs THEN 0
    ELSE (RemFrom(x, d, i + 1) * LimbBase + x[i]) % d

\* Unsigned x divided by d: quotient and remainder.
Quot(x, d) ==
    [i \in 1..NumLimbs |-> (RemFrom(x, d, i + 1) * LimbBase + x[i]) \div d]

Mod(x, d) == RemFrom(x, d, 1)

\* The sign bit, and -x in two's complement.
IsNeg(x) == x[NumLimbs] >= LimbBase \div 2

Neg(x) == MulAdd([i \in 1..NumLimbs |-> LimbBase - 1 - x[i]], 1, 1)

\* |x| as an unsigned 64-bit value (2^63 for INT64_MIN).
Magnitude(x) == IF IsNeg(x) THEN Neg(x) ELSE x

\* ------------------------------------------------ strings and std::atoll
\* A string is the sequence of its characters.
Digits == {"0", "1", "2", "3", "4", "5", "6", "7", "8", "9"}

DigitVal(ch) ==
    CASE ch = "0" -> 0 [] ch = "1" -> 1 [] ch = "2" -> 2 [] ch = "3" -> 3
      [] ch = "4" -> 4 [] ch = "5" -> 5 [] ch = "6" -> 6 [] ch = "7" -> 7
      [] ch = "8" -> 8 [] ch = "9" -> 9

DigitChar(d) == <<"0", "1", "2", "3", "4", "5", "6", "7", "8", "9">>[d + 1]

RECURSIVE SkipSpace(_, _)
SkipSpace(s, i) ==
    IF i <= Len(s) /\ s[i] = " " THEN SkipSpace(s, i + 1) ELSE i

RECURSIVE ParseDigits(_, _, _)
ParseDigits(s, i, acc) ==
    IF i <= Len(s) /\ s[i] \in Digits
    THEN ParseDigits(s, i + 1, MulAdd(acc, 10, DigitVal(s[i])))
    ELSE acc

\* std::atoll: leading blanks, an optional sign, then digits up to the first
\* other character.
atoll(s) ==
    LET i == SkipSpace(s, 1)
        neg == i <= Len(s) /\ s[i] = "-"
        j == IF i <= Len(s) /\ s[i] \in {"-", "+"} THEN i + 1 ELSE i
        mag == ParseDigits(s, j, Zero64)
    IN  IF neg THEN Neg(mag) ELSE mag

\* The decimal digits of an unsigned value, most significant first; none
\* for zero.
RECURSIVE UDigits(_)
UDigits(x) ==
    IF x = Zero64 THEN <<>>
    ELSE UDigits(Quot(x, 10)) \o <<DigitChar(Mod(x, 10))>>

\* static_cast<double>(val): the magnitude rounded to MantissaBits
\* significant bits, to nearest, ties to even.  m is the magnitude shifted
\* right k bits, guard the last bit shifted out, sticky whether a one was
\* shifted out before it.
Fits(m) ==
    m[NumLimbs] < 2 ^ (MantissaBits - LimbBits * (NumLimbs - 1))

RECURSIVE ShiftLeft(_, _)
ShiftLeft(m, k) == IF k = 0 THEN m ELSE ShiftLeft(MulAdd(m, 2, 0), k - 1)

RECURSIVE RoundShift(_, _, _, _)
RoundShift(m, k, guard, sticky) ==
    IF Fits(m)
    THEN LET up == guard /\ (sticky \/ Mod(m, 2) = 1)
         IN  ShiftLeft(IF up THEN MulAdd(m, 1, 1) ELSE m, k)
    ELSE RoundShift(Quot(m, 2), k + 1, Mod(m, 2) = 1, sticky \/ guard)

\* The integer a double made from val stands for: sign and magnitude.
toDouble(val) ==
    [neg |-> IsNeg(val), mag |-> RoundShift(Magnitude(val), 0, FALSE, FALSE)]

\* std::to_string(long long): "-" for a negative value, then the digits.
to_string_viaDouble(val) ==
    IF toDouble(val).mag = Zero64 THEN <<"0">>
    ELSE (IF toDouble(val).neg THEN <<"-">> ELSE <<>>)
             \o UDigits(toDouble(val).mag)

to_string(val) ==
    IF val = Zero64 THEN <<"0">>
    ELSE IF IsNeg(val) THEN <<"-">> \o UDigits(Neg(val))
    ELSE UDigits(val)

\* Arguments script passes to the constructor: a string, or a value that is
\* not a string, with the characters toString() reads when it takes that
\* value for a string.
CtorArgs == { [str |-> TRUE, s |-> <<" ", "-", "4", "2", "x">>],
              [str |-> FALSE, s |-> <<" ", "-", "4", "2", "x">>] }

\* The decimal strings of some int64 values: zero, small values of either
\* sign, values at the limb boundaries of the representation, the first
\* values a double cannot hold (2^53 + 1), and the two ends of the range.
Int64MaxStr == <<"9", "2", "2", "3", "3", "7", "2", "0", "3", "6",
                 "8", "5", "4", "7", "7", "5", "8", "0", "7">>

Int64MinStr == <<"-", "9", "2", "2", "3", "3", "7", "2", "0", "3", "6",
                 "8", "5", "4", "7", "7", "5", "8", "0", "8">>

DecimalStrings ==
    { <<"0">>, <<"7">>, <<"-", "1">>, <<"6", "5", "5", "3", "6">>,
      <<"-", "4", "2", "9", "4", "9", "6", "7", "2", "9", "6">>,
      <<"9", "0", "0", "7", "1", "9", "9", "2", "5", "4", "7", "4", "0",
        "9", "9", "3">>,
      <<"-", "9", "0", "0", "7", "1", "9", "9", "2", "5", "4", "7", "4", "0",
        "9", "9", "3">>,
      Int64MaxStr, Int64MinStr }

\* The constructor's arguments when script passes such a string, or one of
\* CtorArgs.
RoundArgs == {[str |-> TRUE, s |-> d] : d \in DecimalStrings} \cup CtorArgs

\* What a read of memory that holds no MyType gives: some int64 of the model.
GarbageVal == CHOOSE v \in {atoll(a.s) : a \in CtorArgs} : TRUE

\* ------------------------------------------------------------- records
NoObj == [st |-> "free", ctx |-> 0, cls |-> 0, priv |-> 0, how |-> "none"]

\* src: the string the payload was constructed from.
NoPay == [val |-> Zero64, src |-> <<>>, released |-> 0, by |-> 0]

NoAdapter == [exists |-> FALSE, proto |-> 0, pinned |-> FALSE, gen |-> 0]

NoWrap == [registered |-> FALSE, alive |-> FALSE, pinned |-> FALSE]

Idle == [op |-> "none", ctx |-> 0, recv |-> 0, noProto |-> FALSE,
         fail |-> "None", entered |-> FALSE, readSlot |-> FALSE,
         ret |-> TRUE, exc |-> FALSE, before |-> 0, rval |-> 0,
         pay |-> 0, input |-> "none", out |-> <<>>]

\* Values script can pass as a receiver: 0 (not an object) or a live object.
Live == {o \in ObjId : obj[o].st = "live"}
Receivers == {0} \cup Live


\* ------------------------------------------------------------------ Init
Init ==
    /\ ctxState = [c \in Ctx |-> "none"]
    /\ adapter = [c \in Ctx |-> NoAdapter]
    /\ wrap = [c \in Ctx |-> NoWrap]
    /\ obj = [o \in ObjId |-> NoObj]
    /\ pay = [p \in PayId |-> NoPay]
    /\ nextPay = 1
    /\ finalized = [o \in ObjId |-> 0]
    /\ counter = 0
    /\ passed = FALSE
    /\ last = Idle
    /\ crashed = FALSE

\* The runtime is single-threaded: a native callback runs to completion and
\* the runtime takes its result (last) before anything else happens.
Running == ~crashed /\ last = Idle

\* The runtime takes the result of the call it made and goes on.
Resume ==
    /\ ~crashed /\ last # Idle
    /\ last' = Idle
    /\ UNCHANGED <<ctxState, adapter, wrap, obj, pay, nextPay, finalized,
                   counter, passed, crashed>>

\* The embedding initializes a context and its global object.
NewContext(c) ==
    /\ Running /\ ctxState[c] = "none"
    /\ \A d \in Ctx : d < c => ctxState[d] # "none"
    /\ ctxState' = [ctxState EXCEPT ![c] = "alive"]
    /\ last' = Idle
    /\ UNCHANGED <<adapter, wrap, obj, pay, nextPay, finalized, counter,
                   passed, crashed>>

\* ------------------------------------------------ AdaptedMyType (the adapter)
\* JS_InstanceOf(cx, object, &_jsclass, nullptr): the object's class is the
\* JSClass at that address.
instanceOf_byName(c, o) == o \in ObjId /\ obj[o].cls \in Ctx

instanceOf(c, o) == o \in ObjId /\ obj[o].cls = c

\* fromContext(cx)._proto == obj
isPrototype(c, o) == o # 0 /\ adapter[c].proto = o

\* JS_InitClass: the prototype object has the registered class and an empty
\* private slot.
initClassProto(c) ==
    [st |-> "live", ctx |-> c, cls |-> c, priv |-> 0, how |-> "proto"]

\* newObject: JS_NewObject(_context, &_jsclass, _proto), private slot empty.
newObject_plain(c) ==
    [st |-> "live", ctx |-> c, cls |-> OtherClass, priv |-> 0,
     how |-> "instance"]

newObject(c) ==
    [st |-> "live", ctx |-> c, cls |-> c, priv |-> 0, how |-> "instance"]

\* finalize: delete the MyType the private slot points to, if any.  The
\* result is the payload table tbl after the call.
finalize_noDelete(tbl, o) == tbl

finalize(tbl, o) ==
    LET ptr == obj[o].priv
    IN  IF ptr \in PayId
        THEN [tbl EXCEPT ![ptr] = [@ EXCEPT !.released = @ + 1, !.by = o]]
        ELSE tbl

\* The collector may reclaim an object that no root reaches; the prototype is
\* rooted by the adapter's PersistentRootedObject.
pinned(o) ==
    \E c \in Ctx : adapter[c].exists /\ adapter[c].pinned
                   /\ adapter[c].proto = o

\* ------------------------------------------------------------ installation
\* One adapter per context: a second installation of the type is refused.
DuplicateInstallation(c) == adapter[c].exists

\* AdaptedMyType::AdaptedMyType, for the adapter a context holds.
InstallAdapted(c) ==
    /\ Running /\ ctxState[c] = "alive"
    /\ IF DuplicateInstallation(c)
       THEN /\ last' = [Idle EXCEPT !.op = "install", !.ctx = c,
                             !.fail = "DuplicateInstallation",
                             !.ret = FALSE, !.rval = adapter[c].proto]
            /\ UNCHANGED <<adapter, obj>>
       ELSE /\ obj' = [obj EXCEPT ![ProtoId(c)] = initClassProto(c)]
            /\ adapter' = [adapter EXCEPT ![c] =
                   [exists |-> TRUE, proto |-> ProtoId(c), pinned |-> TRUE,
                    gen |-> adapter[c].gen + 1]]
            /\ last' = [Idle EXCEPT !.op = "install", !.ctx = c,
                             !.rval = ProtoId(c)]
    /\ UNCHANGED <<ctxState, wrap, pay, nextPay, finalized, counter,
                   passed, crashed>>

\* WrapType<AdaptedMyTypeInfo>::install: registers the class in the global
\* scope and pins the prototype.
WrapTypeInstall(w) ==
    [registered |-> TRUE, alive |-> TRUE, pinned |-> TRUE]

\* ~WrapType: the installer and its prototype pin go; what install put into
\* the global scope stays.
WrapTypeDestroy(w) == [w EXCEPT !.alive = FALSE, !.pinned = FALSE]

\* myFunc: the installer is a local of the function; it is destroyed when
\* the function returns (or when install throws, for a type the scope
\* already has).
MyFunc(c) ==
    /\ Running /\ ctxState[c] = "alive"
    /\ IF wrap[c].registered
       THEN /\ wrap' = wrap
            /\ last' = [Idle EXCEPT !.op = "myFunc", !.ctx = c,
                             !.fail = "DuplicateInstallation",
                             !.ret = FALSE]
       ELSE /\ wrap' = [wrap EXCEPT ![c] =
                            WrapTypeDestroy(WrapTypeInstall(@))]
            /\ last' = [Idle EXCEPT !.op = "myFunc", !.ctx = c]
    /\ UNCHANGED <<ctxState, adapter, obj, pay, nextPay, finalized,
                   counter, passed, crashed>>

\* An object of an unrelated class, with what that class keeps in its
\* private slot.
NewOther(c, o) ==
    /\ Running /\ ctxState[c] = "alive"
    /\ obj[o].st = "free"
    /\ \A q \in OtherId : q < o => obj[q].st # "free"
    /\ obj' = [obj EXCEPT ![o] =
                   [st |-> "live", ctx |-> c, cls |-> OtherClass,
                    priv |-> Foreign, how |-> "other"]]
    /\ last' = Idle
    /\ UNCHANGED <<ctxState, adapter, wrap, pay, nextPay, finalized,
                   counter, passed, crashed>>

\* ------------------------------------------------------------ construction
\* AdaptedMyType::construct, as registered with JS_InitClass.  Nothing in it
\* is checked: args.get(0).toString() on a value that is not a string, and
\* JS_SetPrivate on the null object JS_NewObject returns when it fails, are
\* undefined behaviour.
Construct(c, arg, allocOK, ub) ==
    /\ Running /\ ctxState[c] = "alive" /\ adapter[c].exists
    /\ nextPay <= MaxPay
    /\ (arg.str /\ allocOK) => ub = "garbage"
    /\ LET val == IF arg.str THEN atoll(arg.s) ELSE GarbageVal
           p == nextPay
           o == nextPay
           how == IF ~arg.str THEN "notAString"
                  ELSE IF allocOK THEN "ok" ELSE "allocFails"
       IN  IF ~arg.str /\ ub = "crash"
           THEN /\ crashed' = TRUE
                /\ last' = [Idle EXCEPT !.op = "construct", !.ctx = c,
                                 !.fail = "Crash", !.input = how]
                /\ UNCHANGED <<obj, pay, nextPay>>
           ELSE /\ pay' = [pay EXCEPT ![p] =
                                [NoPay EXCEPT !.val = val, !.src = arg.s]]
                /\ nextPay' = p + 1
                /\ IF allocOK
                   THEN /\ obj' = [obj EXCEPT ![o] =
                                  [newObject(c) EXCEPT !.priv = p]]
                        /\ crashed' = crashed
                        /\ last' = [Idle EXCEPT !.op = "construct",
                                         !.ctx = c, !.rval = o, !.pay = p,
                                         !.input = how]
                   ELSE /\ obj' = obj
                        /\ crashed' = (ub = "crash")
                        /\ last' = [Idle EXCEPT !.op = "construct",
                                         !.ctx = c, !.rval = 0, !.pay = p,
                                         !.input = "allocFails",
                                         !.fail = IF ub = "crash"
                                                  THEN "Crash" ELSE "None"]
    /\ UNCHANGED <<ctxState, adapter, wrap, finalized, counter, passed>>

\* --------------------------------------------------------------- collector
\* The collector reclaims an unreachable object and runs its class's
\* finalizer once.
Reclaim(o) ==
    /\ Running
    /\ obj[o].st = "live" /\ ~pinned(o)
    /\ obj' = [obj EXCEPT ![o].st = "reclaimed"]
    /\ IF obj[o].cls \in Ctx
       THEN /\ pay' = finalize(pay, o)
            /\ finalized' = [finalized EXCEPT ![o] = @ + 1]
       ELSE UNCHANGED <<pay, finalized>>
    /\ last' = Idle
    /\ UNCHANGED <<ctxState, adapter, wrap, nextPay, counter, passed, crashed>>

RECURSIVE FinalizeAll(_, _)
FinalizeAll(S, tbl) ==
    IF S = {} THEN tbl
    ELSE LET o == CHOOSE x \in S : TRUE
         IN  FinalizeAll(S \ {o}, finalize(tbl, o))

\* The context is torn down: the adapter it holds is destroyed, which
\* releases the prototype pin, and every object of its heap is finalized.
Teardown(c) ==
    /\ Running /\ ctxState[c] = "alive"
    /\ LET dying == {o \in Live : obj[o].ctx = c}
           mine == {o \in dying : obj[o].cls \in Ctx}
       IN  /\ obj' = [o \in ObjId |->
                        IF o \in dying
                        THEN [obj[o] EXCEPT !.st = "reclaimed"]
                        ELSE obj[o]]
           /\ pay' = FinalizeAll(mine, pay)
           /\ finalized' = [o \in ObjId |->
                              IF o \in mine THEN finalized[o] + 1
                              ELSE finalized[o]]
    /\ ctxState' = [ctxState EXCEPT ![c] = "dead"]
    /\ adapter' = [adapter EXCEPT ![c] = [NoAdapter EXCEPT !.gen = adapter[c].gen]]
    /\ wrap' = [wrap EXCEPT ![c] = NoWrap]
    /\ last' = Idle
    /\ UNCHANGED <<nextPay, counter, passed, crashed>>

\* ------------------------------------------------------------ entry points
\* What one call of an entry point did: the failure it raised, whether the
\* native body was entered, whether it read the receiver's private slot,
\* what it returned to the runtime, whether it left a pending exception
\* (cppToJSException), and whether it ran into undefined behaviour.
Outcome(f, e, rs, rt, ex, u) ==
    [fail |-> f, entered |-> e, readSlot |-> rs, ret |-> rt, exc |-> ex,
     ub |-> u]

\* throw std::runtime_error(...) before the body, caught by catch (...).
Raise(kind) == Outcome(kind, FALSE, FALSE, FALSE, TRUE, FALSE)

\* args.thisv().isObject()
isObject(r) == r # 0

\* static_cast<MyType*>(JS_GetPrivate(thisv.toObjectOrNull()))->val is
\* defined only when the receiver is an object whose slot holds a MyType.
validRead(r) == r \in ObjId /\ obj[r].priv \in PayId

\* AdaptedMyType::toNumber, the method JS_InitClass registers: no check.
toNumberRaw(r) == Outcome("None", TRUE, TRUE, TRUE, FALSE, ~validRead(r))

\* AdaptedMyType::toString, the method JS_InitClass registers: no check of
\* the receiver, none of the string JS_NewStringCopyZ returns (null when
\* it cannot allocate).
toStringRaw(r, allocOK) ==
    Outcome("None", TRUE, TRUE, TRUE, FALSE, ~validRead(r) \/ ~allocOK)

\* The string toString hands to script: std::to_string of the payload's
\* val, or of whatever the slot's memory holds.
toStringValue(r) ==
    to_string(IF validRead(r) THEN pay[obj[r].priv].val ELSE GarbageVal)

\* The hardened toNumber.
toNumber_noProtoCheck(c, r) ==
    IF ~isObject(r) THEN Raise("NotAnObject")
    ELSE IF ~instanceOf(c, r) THEN Raise("WrongType")
    ELSE Outcome("None", TRUE, TRUE, TRUE, FALSE, ~validRead(r))

toNumber(c, r) ==
    IF ~isObject(r) THEN Raise("NotAnObject")
    ELSE IF ~instanceOf(c, r) THEN Raise("WrongType")
    ELSE IF isPrototype(c, r) THEN Raise("CalledOnPrototype")
    ELSE Outcome("None", TRUE, TRUE, TRUE, FALSE, ~validRead(r))

\* wrapFunction<T>: T::call runs inside try; catch (...) turns whatever it
\* throws into a pending exception and a false return.
wrapFunction_returnsTrue(throws) ==
    Outcome(IF throws THEN "NativeFailure" ELSE "None", TRUE, FALSE,
            TRUE, throws, FALSE)

wrapFunction(throws) ==
    IF throws
    THEN Outcome("NativeFailure", TRUE, FALSE, FALSE, TRUE, FALSE)
    ELSE Outcome("None", TRUE, FALSE, TRUE, FALSE, FALSE)

\* instanceOf<Args...>(cx, value) for Args = the context's adapter:
\* <<the value is of the type, the value is the type's prototype>>.
instanceOfTuple(c, r) == <<instanceOf(c, r), isPrototype(c, r)>>

\* T::call of a method that reads its receiver's payload: it may throw;
\* otherwise it reads the slot.
methodCall(r, throws) ==
    IF throws
    THEN Outcome("NativeFailure", TRUE, FALSE, FALSE, TRUE, FALSE)
    ELSE Outcome("None", TRUE, TRUE, TRUE, FALSE, ~validRead(r))

\* wrapConstrainedMethod<T, noProto, Args...>.
wrapConstrainedMethod_noProtoCheck(c, noProto, r, throws) ==
    IF ~isObject(r) THEN Raise("NotAnObject")
    ELSE IF ~instanceOfTuple(c, r)[1] THEN Raise("WrongType")
    ELSE methodCall(r, throws)

wrapConstrainedMethod_noTypeCheck(c, noProto, r, throws) ==
    IF ~isObject(r) THEN Raise("NotAnObject")
    ELSE IF noProto /\ instanceOfTuple(c, r)[2]
         THEN Raise("CalledOnPrototype")
    ELSE methodCall(r, throws)

wrapConstrainedMethod(c, noProto, r, throws) ==
    IF ~isObject(r) THEN Raise("NotAnObject")
    ELSE LET correctType == instanceOfTuple(c, r)[1]
             isProto == instanceOfTuple(c, r)[2]
         IN  IF ~correctType THEN Raise("WrongType")
             ELSE IF noProto /\ isProto THEN Raise("CalledOnPrototype")
             ELSE methodCall(r, throws)

\* What a receiver is to the type of context c, by how it came to be: a
\* value that is no object, the prototype JS_InitClass made for c, an
\* object construct made in c, or an object of some other class.
Kind(c, r) ==
    IF r = 0 THEN "nonObject"
    ELSE IF obj[r].ctx = c /\ obj[r].how = "proto" THEN "proto"
    ELSE IF obj[r].ctx = c /\ obj[r].how = "instance" THEN "instance"
    ELSE "unrelated"

\* One call from script: the record of what happened.  Undefined behaviour
\* either aborts the process or lets the call go on with garbage.
Called(op, c, r, np, throws, res) ==
    \E ub \in IF res.ub THEN UBOutcomes ELSE {"garbage"} :
        /\ crashed' = (ub = "crash")
        /\ last' = [Idle EXCEPT !.op = op, !.ctx = c, !.recv = r,
                         !.noProto = np,
                         !.fail = IF ub = "crash" THEN "Crash"
                                  ELSE res.fail,
                         !.entered = res.entered,
                         !.readSlot = res.readSlot,
                         !.ret = res.ret, !.exc = res.exc,
                         !.before = counter,
                         !.input = IF throws THEN "throws"
                                   ELSE IF res.ub THEN "ub" ELSE "none"]

CallRawToNumber(c, r) ==
    /\ Running /\ ctxState[c] = "alive" /\ adapter[c].exists
    /\ Called("rawToNumber", c, r, FALSE, FALSE, toNumberRaw(r))
    /\ UNCHANGED <<ctxState, adapter, wrap, obj, pay, nextPay, finalized,
                   counter, passed>>

CallRawToString(c, r, allocOK) ==
    /\ Running /\ ctxState[c] = "alive" /\ adapter[c].exists
    /\ LET res == toStringRaw(r, allocOK)
       IN  \E ub \in IF res.ub THEN UBOutcomes ELSE {"garbage"} :
               /\ crashed' = (ub = "crash")
               /\ last' = [Idle EXCEPT
                              !.op = "rawToString", !.ctx = c, !.recv = r,
                              !.fail = IF ub = "crash" THEN "Crash"
                                       ELSE res.fail,
                              !.entered = res.entered,
                              !.readSlot = res.readSlot,
                              !.ret = res.ret, !.exc = res.exc,
                              !.before = counter,
                              !.input = IF res.ub THEN "ub" ELSE "none",
                              !.out = IF ub = "crash" \/ ~allocOK THEN <<>>
                                      ELSE toStringValue(r)]
    /\ UNCHANGED <<ctxState, adapter, wrap, obj, pay, nextPay, finalized,
                   counter, passed>>

CallToNumber(c, r) ==
    /\ Running /\ ctxState[c] = "alive" /\ adapter[c].exists
    /\ Called("toNumber", c, r, TRUE, FALSE, toNumber(c, r))
    /\ UNCHANGED <<ctxState, adapter, wrap, obj, pay, nextPay, finalized,
                   counter, passed>>

CallWrapFunction(c, throws) ==
    /\ Running /\ ctxState[c] = "alive"
    /\ Called("wrapFunction", c, 0, FALSE, throws, wrapFunction(throws))
    /\ UNCHANGED <<ctxState, adapter, wrap, obj, pay, nextPay, finalized,
                   counter, passed>>

\* A method generated by wrapConstrainedMethod; the body of T::call bumps
\* the side-effect counter when it is entered.
CallConstrained(c, noProto, r, throws) ==
    /\ Running /\ ctxState[c] = "alive" /\ adapter[c].exists
    /\ LET res == wrapConstrainedMethod(c, noProto, r, throws)
       IN  /\ res.entered => counter < MaxCount
           /\ Called("constrained", c, r, noProto, throws, res)
           /\ counter' = IF res.entered THEN counter + 1 ELSE counter
    /\ passed' = (passed \/ Kind(c, r) = "instance"
                          \/ (Kind(c, r) = "proto" /\ ~noProto))
    /\ UNCHANGED <<ctxState, adapter, wrap, obj, pay, nextPay, finalized>>

\* --------------------------------------------------------------- the system
Next ==
    \/ Resume
    \/ \E c \in Ctx : NewContext(c)
    \/ \E c \in Ctx : InstallAdapted(c)
    \/ \E c \in Ctx : MyFunc(c)
    \/ \E c \in Ctx, o \in OtherId : NewOther(c, o)
    \/ \E c \in Ctx, arg \in CtorArgs, allocOK \in BOOLEAN,
          ub \in UBOutcomes : Construct(c, arg, allocOK, ub)
    \/ \E o \in ObjId : Reclaim(o)
    \/ \E c \in Ctx : Teardown(c)
    \/ \E c \in Ctx, r \in Receivers : CallRawToNumber(c, r)
    \/ \E c \in Ctx, r \in Receivers, allocOK \in BOOLEAN :
          CallRawToString(c, r, allocOK)
    \/ \E c \in Ctx, r \in Receivers : CallToNumber(c, r)
    \/ \E c \in Ctx, throws \in BOOLEAN : CallWrapFunction(c, throws)
    \/ \E c \in Ctx, noProto \in BOOLEAN, r \in Receivers,
          throws \in BOOLEAN : CallConstrained(c, noProto, r, throws)

Spec == Init /\ [][Next]_vars

\* The adapter's life without script calls: installation, construction,
\* collection, teardown.
NextLife ==
    \/ Resume
    \/ \E c \in Ctx : NewContext(c)
    \/ \E c \in Ctx : InstallAdapted(c)
    \/ \E c \in Ctx : MyFunc(c)
    \/ \E c \in Ctx, o \in OtherId : NewOther(c, o)
    \/ \E c \in Ctx, arg \in CtorArgs, allocOK \in BOOLEAN,
          ub \in UBOutcomes : Construct(c, arg, allocOK, ub)
    \/ \E o \in ObjId : Reclaim(o)
    \/ \E c \in Ctx : Teardown(c)

SpecLife == Init /\ [][NextLife]_vars

\* Script calling the entry points on whatever objects it can reach.  The
\* entry points leave the heap as it is, and the collector and teardown
\* only take receivers away, so they are left out here.
NextCalls ==
    \/ Resume
    \/ \E c \in Ctx : NewContext(c)
    \/ \E c \in Ctx : InstallAdapted(c)
    \/ \E c \in Ctx, o \in OtherId : NewOther(c, o)
    \/ \E c \in Ctx, arg \in CtorArgs, allocOK \in BOOLEAN,
          ub \in UBOutcomes : Construct(c, arg, allocOK, ub)
    \/ \E c \in Ctx, r \in Receivers : CallRawToNumber(c, r)
    \/ \E c \in Ctx, r \in Receivers : CallToNumber(c, r)
    \/ \E c \in Ctx, throws \in BOOLEAN : CallWrapFunction(c, throws)
    \/ \E c \in Ctx, noProto \in BOOLEAN, r \in Receivers,
          throws \in BOOLEAN : CallConstrained(c, noProto, r, throws)

SpecCalls == Init /\ [][NextCalls]_vars

\* Script constructing instances from strings and reading them back with
\* toString.
NextStrings ==
    \/ Resume
    \/ \E c \in Ctx : NewContext(c)
    \/ \E c \in Ctx : InstallAdapted(c)
    \/ \E c \in Ctx, arg \in RoundArgs, allocOK \in BOOLEAN,
          ub \in UBOutcomes : Construct(c, arg, allocOK, ub)
    \/ \E c \in Ctx, r \in Receivers, allocOK \in BOOLEAN :
          CallRawToString(c, r, allocOK)

SpecStrings == Init /\ [][NextStrings]_vars

\* =================================================================== claims
CheckFailures == {"NotAnObject", "WrongType", "CalledOnPrototype"}

\* The failure the receiver checks owe a receiver of a given kind, taken in
\* the order object, type, prototype.
FirstFailure(kind, noProto) ==
    CASE kind = "nonObject" -> "NotAnObject"
      [] kind = "unrelated" -> "WrongType"
      [] kind = "proto" /\ noProto -> "CalledOnPrototype"
      [] OTHER -> "None"

\* C1: a constrained entry point (the generated wrapConstrainedMethod and
\* the hand-written hardened toNumber) reports the failure of the first
\* receiver check that fails, in the order object, type, prototype: a value
\* that is no object gives NotAnObject, an object of another type gives
\* WrongType and never CalledOnPrototype, the prototype gives
\* CalledOnPrototype when the prototype is excluded, and a receiver that
\* passes every check gives none of the three.
C1_FirstFailingCheck ==
    last.op \in {"constrained", "toNumber"} =>
        LET owed == FirstFailure(Kind(last.ctx, last.recv), last.noProto)
        IN  IF owed = "None"
            THEN last.fail \notin CheckFailures
            ELSE last.fail = owed

C1_Witness ==
    /\ last.op = "constrained"
    /\ last.recv # 0
    /\ obj[last.recv].how = "other"
    /\ last.fail = "WrongType"
    /\ adapter[last.ctx].exists

\* C2: when a receiver check of a constrained method fails the native body
\* is not entered: the call returns false with a pending exception and the
\* side-effect counter of the body is what it was; a method that excludes
\* the prototype, called on the prototype, fails with CalledOnPrototype;
\* and as long as no call had a receiver that passes the checks, the
\* counter is zero.
C2_BodyNotEntered ==
    /\ (last.op = "constrained" /\ last.fail \in CheckFailures) =>
           /\ ~last.entered /\ ~last.readSlot
           /\ last.ret = FALSE /\ last.exc
           /\ counter = last.before
    /\ (last.op = "constrained" /\ last.noProto
          /\ Kind(last.ctx, last.recv) = "proto") =>
           /\ last.fail = "CalledOnPrototype"
           /\ ~last.entered /\ last.ret = FALSE
    /\ ~passed => counter = 0

C2_Witness ==
    /\ last.op = "constrained" /\ last.noProto
    /\ Kind(last.ctx, last.recv) = "proto"
    /\ last.fail = "CalledOnPrototype"
    /\ counter = 0

\* The entry points the program registers with the runtime or generates for
\* it: the methods of AdaptedMyType::methods, the hardened toNumber, the
\* prototype-excluding methods of AdaptedMyTypeInfo::methods, and the free
\* functions wrapFunction makes.
Registered ==
    \/ last.op \in {"rawToNumber", "toNumber", "wrapFunction"}
    \/ last.op = "constrained" /\ last.noProto

\* C3: every registered entry point that reads the private slot of its
\* receiver does so only for a receiver that is an object, of the expected
\* type, and not the prototype.
C3_SlotReadOnlyOnInstances ==
    (Registered /\ last.readSlot) =>
        Kind(last.ctx, last.recv) = "instance"

\* C4: an adapter (wrapFunction, wrapConstrainedMethod) returns false to the
\* runtime, with the failure turned into a pending exception, exactly when
\* a check or the native body raised; otherwise it returns true.
Raised ==
    \/ last.op = "constrained"
         /\ FirstFailure(Kind(last.ctx, last.recv), last.noProto) # "None"
    \/ last.input = "throws"

C4_FailureIffRaised ==
    (last.op \in {"wrapFunction", "constrained"} /\ ~crashed) =>
        /\ last.ret = ~Raised
        /\ last.exc = Raised
        /\ Raised = (last.fail # "None")

C4_Witness ==
    /\ last.op = "wrapFunction"
    /\ last.input = "throws"
    /\ last.ret = FALSE /\ last.exc
    /\ ~crashed

\* The objects of the adapted type: prototypes and what construct made.
Adapted == {o \in ObjId : obj[o].how \in {"proto", "instance"}}

\* The objects whose private slot holds payload p.
Holders(p) == {o \in ObjId : obj[o].priv = p}

\* C5: a payload is released at most once, and it has been released exactly
\* when the object whose slot holds it has been reclaimed, by the finalizer
\* of that object; no payload is held by two objects; the finalizer has run
\* once for every reclaimed object of the type and not at all for a live
\* one; and for an object reclaimed with an empty slot (the prototype) it
\* released nothing.
C5_ReleasedOnceByFinalizer ==
    /\ \A p \in PayId :
           /\ pay[p].released <= 1
           /\ Cardinality(Holders(p)) <= 1
           /\ pay[p].released = 1 =>
                  /\ pay[p].by \in Holders(p)
                  /\ obj[pay[p].by].st = "reclaimed"
           /\ \A o \in Holders(p) :
                  /\ obj[o].st = "reclaimed" =>
                         pay[p].released = 1 /\ pay[p].by = o
                  /\ obj[o].st = "live" => pay[p].released = 0
    /\ \A o \in Adapted :
           /\ finalized[o] = IF obj[o].st = "reclaimed" THEN 1 ELSE 0
           /\ obj[o].priv = 0 => \A p \in PayId : pay[p].by # o

C5_Witness ==
    \E o \in Adapted, q \in Adapted :
        /\ obj[o].how = "instance" /\ obj[o].st = "reclaimed"
        /\ obj[o].priv \in PayId /\ pay[obj[o].priv].released = 1
        /\ obj[q].how = "proto" /\ obj[q].st = "reclaimed"
        /\ obj[q].priv = 0 /\ finalized[q] = 1

\* C6: an object construct made is an instance of the type of its context
\* and is not its prototype; the prototype of an installed type is an
\* instance of the type and is its prototype.
C6_InstancesAndPrototype ==
    \A o \in Live :
        LET c == obj[o].ctx
        IN  /\ obj[o].how = "instance" =>
                   instanceOf(c, o) /\ ~isPrototype(c, o)
            /\ obj[o].how = "proto" =>
                   instanceOf(c, o) /\ isPrototype(c, o)

C6_Witness ==
    \E o \in Live, q \in Live :
        /\ obj[o].how = "instance" /\ obj[q].how = "proto"
        /\ obj[o].ctx = obj[q].ctx
        /\ instanceOf(obj[o].ctx, o) /\ ~isPrototype(obj[o].ctx, o)
        /\ isPrototype(obj[q].ctx, q)

\* A construction that could not succeed: the argument is not a string, or
\* the object could not be allocated.
FailedConstruction ==
    last.op = "construct" /\ last.input \in {"notAString", "allocFails"}

\* C7: when construction fails the failure is propagated (the constructor
\* reports failure and hands no object to script), the process carries on,
\* and the payload allocated for it is not left without an owner.
C7_FailedConstructionIsClean ==
    FailedConstruction =>
        /\ ~crashed
        /\ last.ret = FALSE /\ last.rval = 0
        /\ last.pay # 0 =>
               (Holders(last.pay) # {} \/ pay[last.pay].released = 1)

C10_InstallerOutlivesUse ==
    \A c \in Ctx :
        ctxState[c] = "alive" =>
            /\ adapter[c].exists => adapter[c].pinned
            /\ wrap[c].registered => wrap[c].alive /\ wrap[c].pinned

\* a <= b for two digit strings of one length.
LexLE(a, b) ==
    \/ a = b
    \/ \E i \in 1..Len(a) :
           /\ \A j \in 1..(i - 1) : a[j] = b[j]
           /\ DigitVal(a[i]) < DigitVal(b[i])

\* s is the decimal string of a 64-bit signed integer: an optional minus
\* sign and digits, no leading zero, no "-0", within the int64 range.
IsDecimal(s) ==
    LET neg == Len(s) >= 1 /\ s[1] = "-"
        dig == IF neg THEN Tail(s) ELSE s
        limit == IF neg THEN Tail(Int64MinStr) ELSE Int64MaxStr
    IN  /\ Len(dig) >= 1
        /\ \A i \in 1..Len(dig) : dig[i] \in Digits
        /\ dig[1] = "0" => (Len(dig) = 1 /\ ~neg)
        /\ \/ Len(dig) < Len(limit)
           \/ Len(dig) = Len(limit) /\ LexLE(dig, limit)

\* The string the instance o was constructed from.
Source(o) == pay[obj[o].priv].src

\* C11: when toString is called on an instance that was constructed from
\* the decimal string of a 64-bit signed integer, and its allocations
\* succeed, the string it returns is exactly that decimal string; the value
\* does not pass through a double.
C11_RoundTrip ==
    ( /\ last.op = "rawToString" /\ last.input = "none" /\ ~crashed
      /\ last.recv # 0
      /\ obj[last.recv].how = "instance" /\ validRead(last.recv)
      /\ IsDecimal(Source(last.recv)) )
    => /\ last.ret /\ ~last.exc
       /\ last.out = Source(last.recv)

\* toString has returned 9223372036854775807, a value that a double rounds.
C11_Witness ==
    /\ last.op = "rawToString" /\ last.input = "none" /\ ~crashed
    /\ last.recv # 0 /\ obj[last.recv].how = "instance"
    /\ Source(last.recv) = Int64MaxStr
    /\ last.out = Int64MaxStr
    /\ toDouble(pay[obj[last.recv].priv].val).mag
           # Magnitude(pay[obj[last.recv].priv].val)

\* What the runtime and script observe of a call's outcome.
Observed(res) ==
    [fail |-> res.fail, entered |-> res.entered, readSlot |-> res.readSlot,
     ret |-> res.ret, exc |-> res.exc]

\* C12: the hand-written hardened toNumber and the generated
\* wrapConstrainedMethod<toNumber, true, AdaptedMyType>, whose body does
\* what the body of toNumber does, agree for every receiver: they fail at
\* the same check or both accept, enter the body in the same cases and
\* return the same result to the runtime; and every call made of either is
\* what the other would have done.  With noProto = false the generated
\* method differs only for the prototype, which it accepts: the body is
\* entered.
C12_HandWrittenMatchesGenerated ==
    /\ \A c \in Ctx, r \in Receivers :
           (ctxState[c] = "alive" /\ adapter[c].exists) =>
               /\ toNumber(c, r) = wrapConstrainedMethod(c, TRUE, r, FALSE)
               /\ IF Kind(c, r) = "proto"
                  THEN /\ toNumber(c, r).fail = "CalledOnPrototype"
                       /\ ~toNumber(c, r).entered
                       /\ wrapConstrainedMethod(c, FALSE, r, FALSE).fail
                              = "None"
                       /\ wrapConstrainedMethod(c, FALSE, r, FALSE).entered
                  ELSE toNumber(c, r)
                           = wrapConstrainedMethod(c, FALSE, r, FALSE)
    /\ (last.op = "toNumber" /\ ~crashed) =>
           Observed(last) = Observed(wrapConstrainedMethod(
                                         last.ctx, TRUE, last.recv, FALSE))
    /\ (last.op = "constrained" /\ last.noProto /\ last.input # "throws"
          /\ ~crashed) =>
           Observed(last) = Observed(toNumber(last.ctx, last.recv))

\* The generated method with noProto = false has been called on the
\* prototype and entered its body, where the hardened toNumber fails.
C12_Witness ==
    /\ last.op = "constrained" /\ ~last.noProto
    /\ Kind(last.ctx, last.recv) = "proto"
    /\ last.entered
    /\ toNumber(last.ctx, last.recv).fail = "CalledOnPrototype"
    /\ \E o \in Live : Kind(last.ctx, o) = "instance"
                        /\ toNumber(last.ctx, o).entered

\* -------------------------------------------------------------- type sanity
TypeOK ==
    /\ ctxState \in [Ctx -> {"none", "alive", "dead"}]
    /\ nextPay \in 1..(MaxPay + 1)
    /\ counter \in 0..MaxCount
    /\ crashed \in BOOLEAN
    /\ \A o \in ObjId : obj[o].st \in {"free", "live", "reclaimed"}

====
